---------------------------- MODULE Spec2Model ----------------------------
(***************************************************************************)
(* A model of lab_tracker: the report parser (parser.js), the storage      *)
(* layer (storage.js) and the Parse / Save handlers of the page (app.js).  *)
(*                                                                         *)
(* Strings are sequences of one-character strings.  Numbers are exact      *)
(* decimals [n |-> mantissa, e |-> number of fraction digits].  A value    *)
(* that JavaScript holds as null / undefined / NaN is None == << >>, and a *)
(* present value v is Some(v) == << v >>.                                  *)
(***************************************************************************)
EXTENDS Integers, Sequences, FiniteSets, TLC

VARIABLES
    \* parseReportText: the driver loop over the lines of one text
    rawText, lines, lineNo, panel, measurements, origin, rpc,
    \* one call of looksLikePanelHeader / parseMeasurementLine on one line
    line, src, isHeader, parsed, segs, lpc,
    \* one call of extractCollectedAt on one text
    ctext, csrc, collected, cpc,
    \* the page: file input, buttons, draft, handlers in flight, the store
    fileSel, btnParseDisabled, btnSaveDisabled, parsedDraft,
    extracted, parses, saves, queue, db, nextReportId, nextDraftId, done,
    cleared

reportVars  == <<rawText, lines, lineNo, panel, measurements, origin, rpc>>
lineVars    == <<line, src, isHeader, parsed, segs, lpc>>
collectVars == <<ctext, csrc, collected, cpc>>
appVars     == <<fileSel, btnParseDisabled, btnSaveDisabled, parsedDraft,
                 extracted, parses, saves, queue, db, nextReportId, nextDraftId, done,
                 cleared>>
vars        == <<reportVars, lineVars, collectVars, appVars>>

----------------------------------------------------------------------------
(* Characters and strings *)

None    == << >>
Some(v) == << v >>

Chars(s) == [i \in 1..Len(s) |-> SubSeq(s, i, i)]

DigitSeq == Chars("0123456789")
UpperSeq == Chars("ABCDEFGHIJKLMNOPQRSTUVWXYZ")
LowerSeq == Chars("abcdefghijklmnopqrstuvwxyz")

Range(f) == {f[i] : i \in DOMAIN f}

IsDigit(c) == c \in Range(DigitSeq)
IsUpper(c) == c \in Range(UpperSeq)
IsLower(c) == c \in Range(LowerSeq)
\* \s and String.prototype.trim, over the characters the texts use
IsSpace(c) == c \in {" ", "\t", "\n", "\r"}

DigitVal(c) == (CHOOSE i \in 1..10 : DigitSeq[i] = c) - 1

\* String.prototype.toLowerCase on one character
ToLowerChar(c) ==
    IF IsUpper(c) THEN LowerSeq[CHOOSE i \in 1..26 : UpperSeq[i] = c] ELSE c

ToLowerCase(s) == [i \in 1..Len(s) |-> ToLowerChar(s[i])]

RECURSIVE TrimLeft(_)
TrimLeft(s) ==
    IF Len(s) > 0 /\ IsSpace(s[1]) THEN TrimLeft(SubSeq(s, 2, Len(s))) ELSE s

RECURSIVE TrimRight(_)
TrimRight(s) ==
    IF Len(s) > 0 /\ IsSpace(s[Len(s)])
    THEN TrimRight(SubSeq(s, 1, Len(s) - 1)) ELSE s

\* String.prototype.trim
Trim(s) == TrimRight(TrimLeft(s))

\* s.replace(/\s+/g, " ")
RECURSIVE CollapseWs(_)
CollapseWs(s) ==
    IF Len(s) = 0 THEN << >>
    ELSE IF IsSpace(s[1]) THEN <<" ">> \o CollapseWs(TrimLeft(s))
    ELSE <<s[1]>> \o CollapseWs(SubSeq(s, 2, Len(s)))

\* s.split(c) for a one-character separator: empty pieces are kept
RECURSIVE SplitChar(_, _, _)
SplitChar(s, c, cur) ==
    IF Len(s) = 0 THEN <<cur>>
    ELSE IF s[1] = c THEN <<cur>> \o SplitChar(SubSeq(s, 2, Len(s)), c, << >>)
    ELSE SplitChar(SubSeq(s, 2, Len(s)), c, Append(cur, s[1]))

\* s.split(/\r?\n/): a "\r" right before the "\n" belongs to the separator
DropCR(s) ==
    IF Len(s) > 0 /\ s[Len(s)] = "\r" THEN SubSeq(s, 1, Len(s) - 1) ELSE s

RECURSIVE SplitLines(_, _)
SplitLines(s, cur) ==
    IF Len(s) = 0 THEN <<cur>>
    ELSE IF s[1] = "\n"
         THEN <<DropCR(cur)>> \o SplitLines(SubSeq(s, 2, Len(s)), << >>)
    ELSE SplitLines(SubSeq(s, 2, Len(s)), Append(cur, s[1]))

\* tokens.join(" ")
RECURSIVE Join(_)
Join(ts) ==
    IF Len(ts) = 0 THEN << >>
    ELSE IF Len(ts) = 1 THEN ts[1]
    ELSE ts[1] \o <<" ">> \o Join(SubSeq(ts, 2, Len(ts)))

RECURSIVE FlattenLines(_)
FlattenLines(ls) ==
    IF Len(ls) = 0 THEN << >>
    ELSE IF Len(ls) = 1 THEN ls[1]
    ELSE ls[1] \o <<"\n">> \o FlattenLines(SubSeq(ls, 2, Len(ls)))

Min(a, b) == IF a < b THEN a ELSE b
SetMin(S) == CHOOSE x \in S : \A y \in S : x <= y
SetMax(S) == CHOOSE x \in S : \A y \in S : x >= y

----------------------------------------------------------------------------
(* Numbers: the decimal literals [0-9]+(\.[0-9]+)? and Number(token) *)

RECURSIVE Pow10(_)
Pow10(k) == IF k = 0 THEN 1 ELSE 10 * Pow10(k - 1)

RECURSIVE DigitsVal(_)
DigitsVal(s) ==
    IF Len(s) = 0 THEN 0
    ELSE 10 * DigitsVal(SubSeq(s, 1, Len(s) - 1)) + DigitVal(s[Len(s)])

AllDigits(s) == Len(s) > 0 /\ \A i \in 1..Len(s) : IsDigit(s[i])

\* ^[0-9]+(?:\.[0-9]+)?$
IsNumberToken(s) ==
    \/ AllDigits(s)
    \/ \E i \in 1..Len(s) :
          /\ s[i] = "."
          /\ AllDigits(SubSeq(s, 1, i - 1))
          /\ AllDigits(SubSeq(s, i + 1, Len(s)))

RECURSIVE Canon(_)
Canon(x) ==
    IF x.e > 0 /\ x.n % 10 = 0 THEN Canon([n |-> x.n \div 10, e |-> x.e - 1])
    ELSE x

\* Number(t) of a token that starts with a digit: digits, digits ".", and
\* digits "." digits are numbers; anything else is NaN (None).  The texts of
\* this model put no e, x, o or b right after a digit, so exponent, hex,
\* octal and binary literals do not occur.
NumberOf(t) ==
    IF AllDigits(t) THEN Some([n |-> DigitsVal(t), e |-> 0])
    ELSE IF \E i \in 1..Len(t) : t[i] = "."
    THEN LET i    == SetMin({j \in 1..Len(t) : t[j] = "."})
             ip   == SubSeq(t, 1, i - 1)
             fp   == SubSeq(t, i + 1, Len(t))
         IN  IF AllDigits(ip) /\ (Len(fp) = 0 \/ AllDigits(fp))
             THEN Some(Canon([n |-> DigitsVal(ip) * Pow10(Len(fp)) + DigitsVal(fp),
                              e |-> Len(fp)]))
             ELSE None
    ELSE None

\* a < b on numbers
NumLt(a, b) == a.n * Pow10(b.e) < b.n * Pow10(a.e)

----------------------------------------------------------------------------
(* parser.js *)

\* .replace(/\([^)]*\)/g, ""): a "(" with a ")" somewhere after it is removed
\* together with everything up to the first such ")"
RECURSIVE RemoveParens(_)
RemoveParens(s) ==
    IF Len(s) = 0 THEN << >>
    ELSE IF s[1] = "(" /\ \E j \in 2..Len(s) : s[j] = ")"
         THEN LET j == SetMin({k \in 2..Len(s) : s[k] = ")"})
              IN  RemoveParens(SubSeq(s, j + 1, Len(s)))
    ELSE <<s[1]>> \o RemoveParens(SubSeq(s, 2, Len(s)))

IsKeyChar(c) == IsLower(c) \/ IsDigit(c)

RECURSIVE SkipNonKey(_)
SkipNonKey(s) ==
    IF Len(s) > 0 /\ ~IsKeyChar(s[1]) THEN SkipNonKey(SubSeq(s, 2, Len(s)))
    ELSE s

\* .replace(/[^a-z0-9]+/g, "_")
RECURSIVE ReplaceNonKey(_)
ReplaceNonKey(s) ==
    IF Len(s) = 0 THEN << >>
    ELSE IF ~IsKeyChar(s[1]) THEN <<"_">> \o ReplaceNonKey(SkipNonKey(s))
    ELSE <<s[1]>> \o ReplaceNonKey(SubSeq(s, 2, Len(s)))

\* .replace(/^_+|_+$/g, "")
RECURSIVE StripUnderscores(_)
StripUnderscores(s) ==
    IF Len(s) > 0 /\ s[1] = "_" THEN StripUnderscores(SubSeq(s, 2, Len(s)))
    ELSE IF Len(s) > 0 /\ s[Len(s)] = "_"
         THEN StripUnderscores(SubSeq(s, 1, Len(s) - 1))
    ELSE s

normalizeKey(name) ==
    Trim(StripUnderscores(ReplaceNonKey(RemoveParens(ToLowerCase(name)))))

\* /^([<>]=?)\s*([0-9]+(?:\.[0-9]+)?)$/
IsIneq(s) ==
    /\ Len(s) >= 2
    /\ s[1] \in {"<", ">"}
    /\ LET rest == IF s[2] = "=" THEN SubSeq(s, 3, Len(s))
                   ELSE SubSeq(s, 2, Len(s))
       IN  IsNumberToken(TrimLeft(rest))

\* /^([0-9]+(?:\.[0-9]+)?)\s*-\s*([0-9]+(?:\.[0-9]+)?)$/: the positions of the
\* hyphen of a match (at most one, a number holds no hyphen)
RangeHyphens(s) ==
    {i \in 1..Len(s) :
        /\ s[i] = "-"
        /\ IsNumberToken(TrimRight(SubSeq(s, 1, i - 1)))
        /\ IsNumberToken(TrimLeft(SubSeq(s, i + 1, Len(s))))}

NoRef == [refLow |-> None, refHigh |-> None, refText |-> None]

\* refStr is None (null) or Some(string)
parseRef(refStr) ==
    IF refStr = None \/ Len(refStr[1]) = 0 THEN NoRef
    ELSE LET s == Trim(refStr[1])
         IN  IF IsIneq(s)
             THEN [refLow |-> None, refHigh |-> None, refText |-> Some(s)]
             ELSE IF RangeHyphens(s) # {}
             THEN LET i == CHOOSE j \in RangeHyphens(s) : TRUE
                  IN  [refLow  |-> NumberOf(TrimRight(SubSeq(s, 1, i - 1))),
                       refHigh |-> NumberOf(TrimLeft(SubSeq(s, i + 1, Len(s)))),
                       refText |-> None]
             ELSE [refLow |-> None, refHigh |-> None, refText |-> Some(s)]

computeFlagLoose(value, refLow, refHigh, refText) ==
    IF value = None THEN None
    ELSE IF refLow # None /\ ~NumLt(refLow[1], value[1]) THEN Some("L")
    ELSE IF refHigh # None /\ ~NumLt(value[1], refHigh[1]) THEN Some("H")
    ELSE None

\* value is None (not a number, NaN) or Some(number)
computeFlag(value, refLow, refHigh, refText) ==
    IF value = None THEN None
    ELSE IF refLow # None /\ NumLt(value[1], refLow[1]) THEN Some("L")
    ELSE IF refHigh # None /\ NumLt(refHigh[1], value[1]) THEN Some("H")
    ELSE None

MinHeaderLen == 4
MaxHeaderLen == 45
CapsCap == 8

CountCaps(s) == Cardinality({i \in 1..Len(s) : IsUpper(s[i])})

looksLikePanelHeaderFloor(ln) ==
    IF Len(ln) = 0 THEN FALSE
    ELSE LET s == Trim(ln)
         IN  IF Len(s) < MinHeaderLen \/ Len(s) > MaxHeaderLen THEN FALSE
             ELSE IF \E i \in 1..Len(s) : IsDigit(s[i]) THEN FALSE
             ELSE CountCaps(s) >= Min(CapsCap, Len(s) \div 2)

\* caps >= Math.min(8, s.length * 0.5), with both sides doubled: the half
\* length is not rounded
looksLikePanelHeader(ln) ==
    IF Len(ln) = 0 THEN FALSE
    ELSE LET s == Trim(ln)
         IN  IF Len(s) < MinHeaderLen \/ Len(s) > MaxHeaderLen THEN FALSE
             ELSE IF \E i \in 1..Len(s) : IsDigit(s[i]) THEN FALSE
             ELSE 2 * CountCaps(s) >= Min(2 * CapsCap, Len(s))

\* tokens[i] of the loop (i counts from 1 here, the value token is tokens[1])
isRefStart(tokens, i) ==
    LET t == tokens[i]
    IN  \/ \E k \in 1..Len(t) : t[k] = "-"
        \/ (Len(t) > 0 /\ t[1] = "<")
        \/ (Len(t) > 0 /\ t[1] = ">")
        \/ (IsNumberToken(t) /\ i = Len(tokens))

RECURSIVE TokenLoopNotSticky(_, _, _, _)
TokenLoopNotSticky(tokens, i, unitTokens, refTokens) ==
    IF i > Len(tokens)
    THEN [unitTokens |-> unitTokens, refTokens |-> refTokens]
    ELSE IF ~isRefStart(tokens, i)
         THEN TokenLoopNotSticky(tokens, i + 1, Append(unitTokens, tokens[i]),
                                 refTokens)
    ELSE TokenLoopNotSticky(tokens, i + 1, unitTokens,
                            Append(refTokens, tokens[i]))

\* for (let i = 1; i < tokens.length; i++) { ... }
RECURSIVE TokenLoop(_, _, _, _)
TokenLoop(tokens, i, unitTokens, refTokens) ==
    IF i > Len(tokens)
    THEN [unitTokens |-> unitTokens, refTokens |-> refTokens]
    ELSE IF ~isRefStart(tokens, i) /\ Len(refTokens) = 0
         THEN TokenLoop(tokens, i + 1, Append(unitTokens, tokens[i]), refTokens)
    ELSE TokenLoop(tokens, i + 1, unitTokens, Append(refTokens, tokens[i]))

\* x || null for a string x
OrNull(s) == IF Len(s) = 0 THEN None ELSE Some(s)

\* The line as the parser cuts it: None where it returns null before the
\* loop, else the name, the tokens and the two segments of the loop.
CutLine(ln) ==
    LET s == Trim(CollapseWs(ln))
    IN  IF Len(s) = 0 THEN None
        ELSE IF ~\E i \in 1..Len(s) : IsDigit(s[i]) THEN None
        ELSE LET valueIdx == SetMin({i \in 1..Len(s) : IsDigit(s[i])})
                 namePart == Trim(SubSeq(s, 1, valueIdx - 1))
             IN  IF Len(namePart) = 0 THEN None
                 ELSE LET afterValue == Trim(SubSeq(s, valueIdx, Len(s)))
                          tokens     == SplitChar(afterValue, " ", << >>)
                          value      == NumberOf(tokens[1])
                      IN  IF value = None THEN None
                          ELSE LET seg == TokenLoop(tokens, 2, << >>, << >>)
                               IN  Some([s          |-> s,
                                         namePart   |-> namePart,
                                         tokens     |-> tokens,
                                         value      |-> value,
                                         unitTokens |-> seg.unitTokens,
                                         refTokens  |-> seg.refTokens])

\* None for null, else Some(record without panel)
parseMeasurementLine(ln) ==
    LET cut == CutLine(ln)
    IN  IF cut = None THEN None
        ELSE LET c      == cut[1]
                 unit   == OrNull(Trim(Join(c.unitTokens)))
                 refStr == OrNull(Trim(Join(c.refTokens)))
                 ref    == parseRef(refStr)
                 flag   == computeFlag(c.value, ref.refLow, ref.refHigh,
                                       ref.refText)
             IN  Some([key     |-> normalizeKey(c.namePart),
                       name    |-> c.namePart,
                       value   |-> c.value[1],
                       unit    |-> unit,
                       refLow  |-> ref.refLow,
                       refHigh |-> ref.refHigh,
                       refText |-> ref.refText,
                       flag    |-> flag,
                       rawLine |-> c.s])

General == Chars("General")

\* rawText.split(/\r?\n/).map(l => l.trim()).filter(Boolean)
SplitText(text) ==
    LET raw == SplitLines(text, << >>)
        trimmed == [i \in 1..Len(raw) |-> Trim(raw[i])]
    IN  SelectSeq(trimmed, LAMBDA l : Len(l) > 0)

\* { ...m, panel }
WithPanel(m, p) == [panel |-> p] @@ m

DriverStepRawPanel(st, ln) ==
    IF looksLikePanelHeader(ln)
    THEN [panel |-> ln, measurements |-> st.measurements]
    ELSE LET m == parseMeasurementLine(ln)
         IN  IF m # None
             THEN [panel |-> st.panel,
                   measurements |-> Append(st.measurements,
                                           WithPanel(m[1], st.panel))]
             ELSE st

\* One turn of the for loop of parseReportText on line ln, from the panel and
\* the measurements so far
DriverStep(st, ln) ==
    IF looksLikePanelHeader(ln)
    THEN [panel |-> Trim(CollapseWs(ln)), measurements |-> st.measurements]
    ELSE LET m == parseMeasurementLine(ln)
         IN  IF m # None
             THEN [panel |-> st.panel,
                   measurements |-> Append(st.measurements,
                                           WithPanel(m[1], st.panel))]
             ELSE st

RECURSIVE DriverLoop(_, _, _)
DriverLoop(ls, i, st) ==
    IF i > Len(ls) THEN st.measurements
    ELSE DriverLoop(ls, i + 1, DriverStep(st, ls[i]))

\* parseReportText as one call
parseReportText(text) ==
    DriverLoop(SplitText(text), 1,
               [panel |-> General, measurements |-> << >>])

\* How many characters from position p on satisfy the class
RECURSIVE DigitRun(_, _)
DigitRun(t, p) ==
    IF p <= Len(t) /\ IsDigit(t[p]) THEN 1 + DigitRun(t, p + 1) ELSE 0

RECURSIVE WsRun(_, _)
WsRun(t, p) ==
    IF p <= Len(t) /\ IsSpace(t[p]) THEN 1 + WsRun(t, p + 1) ELSE 0

HasAt(t, p, lit) ==
    p + Len(lit) - 1 <= Len(t) /\ SubSeq(t, p, p + Len(lit) - 1) = lit

\* The matchers below return the position after the match, 0 for no match.

\* w1 \s* w2 \s* [:\-]? \s*  at p
LabelEnd(t, p, w1, w2) ==
    IF ~HasAt(t, p, w1) THEN 0
    ELSE LET a == p + Len(w1) + WsRun(t, p + Len(w1))
         IN  IF ~HasAt(t, a, w2) THEN 0
             ELSE LET b == a + Len(w2) + WsRun(t, a + Len(w2))
                      c == IF b <= Len(t) /\ t[b] \in {":", "-"}
                           THEN b + 1 ELSE b
                  IN  c + WsRun(t, c)

\* [0-9]{1,2}\/[0-9]{1,2}\/[0-9]{2,4}  at p: one or two digits must be
\* followed by the slash; the year takes up to four digits
DateEnd(t, p) ==
    LET a == DigitRun(t, p)
    IN  IF a \notin 1..2 \/ ~HasAt(t, p + a, <<"/">>) THEN 0
        ELSE LET q == p + a + 1
                 b == DigitRun(t, q)
             IN  IF b \notin 1..2 \/ ~HasAt(t, q + b, <<"/">>) THEN 0
                 ELSE LET r == q + b + 1
                          c == DigitRun(t, r)
                      IN  IF c < 2 THEN 0 ELSE r + Min(c, 4)

AmPm == {Chars("AM"), Chars("PM"), Chars("am"), Chars("pm")}

\* [0-9]{1,2}:[0-9]{2}\s*(?:AM|PM|am|pm)?  at p: the blanks after the
\* minutes are part of the match also when no marker follows them
TimeEnd(t, p) ==
    LET h == DigitRun(t, p)
    IN  IF h \notin 1..2 \/ ~HasAt(t, p + h, <<":">>) THEN 0
        ELSE IF DigitRun(t, p + h + 1) < 2 THEN 0
        ELSE LET e == p + h + 3
                 w == e + WsRun(t, e)
             IN  IF \E mk \in AmPm : HasAt(t, w, mk) THEN w + 2 ELSE w

\* patterns[0] at p: None, or Some of the two groups
CollectedOnAt(t, p) ==
    LET d0 == LabelEnd(t, p, Chars("Collected"), Chars("On"))
    IN  IF d0 = 0 THEN None
        ELSE LET d1 == DateEnd(t, d0)
             IN  IF d1 = 0 \/ WsRun(t, d1) = 0 THEN None
                 ELSE LET t0 == d1 + WsRun(t, d1)
                          t1 == TimeEnd(t, t0)
                      IN  IF t1 = 0 THEN None
                          ELSE Some([g1 |-> Some(SubSeq(t, d0, d1 - 1)),
                                     g2 |-> Some(SubSeq(t, t0, t1 - 1))])

\* patterns[1] at p: it has one group, m[2] is undefined
CollectionDateAt(t, p) ==
    LET d0 == LabelEnd(t, p, Chars("Collection"), Chars("Date"))
    IN  IF d0 = 0 THEN None
        ELSE LET d1 == DateEnd(t, d0)
             IN  IF d1 = 0 THEN None
                 ELSE Some([g1 |-> Some(SubSeq(t, d0, d1 - 1)), g2 |-> None])

\* rawText.match(patterns[0]): the match at the leftmost position that has one
MatchCollectedOn(t) ==
    LET ps == {p \in 1..Len(t) : CollectedOnAt(t, p) # None}
    IN  IF ps = {} THEN None ELSE CollectedOnAt(t, SetMin(ps))

\* rawText.match(patterns[1])
MatchCollectionDate(t) ==
    LET ps == {p \in 1..Len(t) : CollectionDateAt(t, p) # None}
    IN  IF ps = {} THEN None ELSE CollectionDateAt(t, SetMin(ps))

\* { datePart: m[1], timePart: m[2] || "00:00" }
Stamp(m) ==
    [datePart |-> m[1].g1[1],
     timePart |-> IF m[1].g2 = None \/ Len(m[1].g2[1]) = 0
                  THEN Chars("00:00") ELSE m[1].g2[1]]

extractCollectedAtDateFirst(t) ==
    LET m1 == MatchCollectionDate(t)
        m2 == MatchCollectedOn(t)
    IN  IF m1 # None THEN Some(Stamp(m1))
        ELSE IF m2 # None THEN Some(Stamp(m2))
        ELSE None

\* None for null
extractCollectedAt(t) ==
    LET m1 == MatchCollectedOn(t)
        m2 == MatchCollectionDate(t)
    IN  IF m1 # None THEN Some(Stamp(m1))
        ELSE IF m2 # None THEN Some(Stamp(m2))
        ELSE None

----------------------------------------------------------------------------
(* Idle values: each specification below drives one group of variables and  *)
(* leaves the other groups at these values.                                 *)

ReportIdle ==
    /\ rawText = << >> /\ lines = << >> /\ lineNo = 0 /\ panel = << >>
    /\ measurements = << >> /\ origin = << >> /\ rpc = "idle"

LineIdle ==
    /\ line = << >> /\ src = [kind |-> "none"] /\ isHeader = FALSE
    /\ parsed = None /\ segs = None /\ lpc = "idle"

CollectIdle ==
    /\ ctext = << >> /\ csrc = << >> /\ collected = None /\ cpc = "idle"

AppIdle ==
    /\ fileSel = None /\ btnParseDisabled = TRUE /\ btnSaveDisabled = TRUE
    /\ parsedDraft = None /\ extracted = << >> /\ parses = {} /\ saves = {}
    /\ queue = << >> /\ db = << >> /\ nextReportId = 0 /\ nextDraftId = 0 /\ done = {}
    /\ cleared = FALSE

----------------------------------------------------------------------------
(* SpecLine: one line, classified by looksLikePanelHeader and cut by        *)
(* parseMeasurementLine.  The lines are of two families: data lines, a name *)
(* then a value token then up to MaxToks further tokens; and probe lines    *)
(* for the classifier, u capitals, p hyphens, l small letters, d digits.    *)

MaxToks  == 3
MaxCaps  == 9
MaxLower == 46

Names     == {Chars("Hb"), Chars("Total Chol (TC)")}
ValueToks == {Chars("13.9"), Chars("14"), Chars("16"), Chars("18"),
              Chars("18.1"), Chars("12."), Chars("5mg")}
TokVocab  == {Chars("mg/dL"), Chars("14-18"), Chars("18-14"), Chars("<5.0"),
              Chars("7"), Chars("-")}
Seps      == {Chars(" "), Chars(" \t")}

RECURSIVE JoinWith(_, _)
JoinWith(ts, sep) ==
    IF Len(ts) = 0 THEN << >>
    ELSE IF Len(ts) = 1 THEN ts[1]
    ELSE ts[1] \o sep \o JoinWith(SubSeq(ts, 2, Len(ts)), sep)

Rep(c, k) == [i \in 1..k |-> c]

TokSeqs == UNION {[1..k -> TokVocab] : k \in 0..MaxToks}

DataSrcs ==
    {[kind |-> "data", name |-> nm, value |-> v, rest |-> r, sep |-> sp] :
        nm \in Names, v \in ValueToks, r \in TokSeqs, sp \in Seps}

ProbeSrcs ==
    {[kind |-> "probe", u |-> u, p |-> p, l |-> l, d |-> d] :
        u \in 0..MaxCaps, p \in 0..1, l \in 0..MaxLower, d \in 0..1}

LineOf(x) ==
    IF x.kind = "data"
    THEN JoinWith(<<x.name, x.value>> \o x.rest, x.sep)
    ELSE Rep("A", x.u) \o Rep("-", x.p) \o Rep("a", x.l) \o Rep("1", x.d)

LineInit ==
    /\ src \in DataSrcs \cup ProbeSrcs
    /\ line = LineOf(src)
    /\ isHeader = FALSE /\ parsed = None /\ segs = None /\ lpc = "start"
    /\ ReportIdle /\ CollectIdle /\ AppIdle

Classify ==
    /\ lpc = "start"
    /\ isHeader' = looksLikePanelHeader(line)
    /\ lpc' = "classified"
    /\ UNCHANGED <<line, src, parsed, segs, reportVars, collectVars, appVars>>

ParseLine ==
    /\ lpc = "classified"
    /\ parsed' = parseMeasurementLine(line)
    /\ segs' = CutLine(line)
    /\ lpc' = "parsed"
    /\ UNCHANGED <<line, src, isHeader, reportVars, collectVars, appVars>>

LineNext == Classify \/ ParseLine

SpecLine == LineInit /\ [][LineNext]_vars

(* Properties of SpecLine *)

NumLe(a, b) == ~NumLt(b, a)

\* The flag the claim derives from a record's own value and bounds
ClaimedFlag(m) ==
    IF m.refLow # None /\ NumLt(m.value, m.refLow[1]) THEN Some("L")
    ELSE IF m.refHigh # None /\ NumLt(m.refHigh[1], m.value) THEN Some("H")
    ELSE None

OnBound(m) ==
    \/ (m.refLow # None /\ m.value = m.refLow[1])
    \/ (m.refHigh # None /\ m.value = m.refHigh[1])

\* C2, as amended: the flag of a record is "L" exactly when refLow is present
\* and value < refLow, otherwise "H" exactly when refHigh is present and
\* value > refHigh, otherwise absent; a record that keeps its reference as
\* refText has no bounds and no flag; a value equal to refLow is never
\* flagged "L", a value equal to refHigh is never flagged "H", and when
\* refLow <= refHigh a value equal to either bound has no flag at all.
C2_FlagStrictOrdered ==
    (lpc = "parsed" /\ parsed # None) =>
        LET m == parsed[1]
        IN  /\ m.flag = ClaimedFlag(m)
            /\ (m.refText # None =>
                    m.refLow = None /\ m.refHigh = None /\ m.flag = None)
            /\ (m.refLow # None /\ m.value = m.refLow[1] => m.flag # Some("L"))
            /\ (m.refHigh # None /\ m.value = m.refHigh[1] => m.flag # Some("H"))
            /\ (m.refLow # None /\ m.refHigh # None
                  /\ NumLe(m.refLow[1], m.refHigh[1]) /\ OnBound(m)
                    => m.flag = None)

\* C2, as stated: the flag follows the strict comparisons, and a value equal
\* to refLow or to refHigh is never flagged, whatever the other bound is.
C2_FlagNeverOnBound ==
    (lpc = "parsed" /\ parsed # None) =>
        LET m == parsed[1]
        IN  /\ m.flag = ClaimedFlag(m)
            /\ (m.refText # None =>
                    m.refLow = None /\ m.refHigh = None /\ m.flag = None)
            /\ (OnBound(m) => m.flag = None)

\* C2's case: a line whose value equals the low bound of its range, parsed
\* to a record without a flag ("Hb 14 14-18").
C2_Witness ==
    /\ lpc = "parsed" /\ parsed # None
    /\ parsed[1].refLow = Some(parsed[1].value)
    /\ parsed[1].refHigh = Some([n |-> 18, e |-> 0])
    /\ parsed[1].flag = None

\* The claim's classification of the j-th token after the value, of n
RefLike(toks, j) ==
    LET t == toks[j]
    IN  \/ "-" \in Range(t)
        \/ t[1] \in {"<", ">"}
        \/ (IsNumberToken(t) /\ j = Len(toks))

FirstRefLike(toks) ==
    IF \E j \in 1..Len(toks) : RefLike(toks, j)
    THEN SetMin({j \in 1..Len(toks) : RefLike(toks, j)})
    ELSE Len(toks) + 1

\* C3: for every accepted line the tokens after the value are split at the
\* first reference-like token (one with a hyphen, one that starts with < or >,
\* or a bare number in last place): the tokens before it are the unit segment,
\* it and all tokens after it the reference segment; with no such token all
\* are unit and the reference segment is empty; unit then reference is the
\* token sequence after the value; the record's unit is the unit segment
\* joined by single spaces, absent when empty.
C3_SplitAtFirstRefLike ==
    (lpc = "parsed" /\ src.kind = "data" /\ segs # None) =>
        LET c == segs[1]
            k == FirstRefLike(src.rest)
        IN  /\ c.tokens = <<src.value>> \o src.rest
            /\ c.unitTokens = SubSeq(src.rest, 1, k - 1)
            /\ c.refTokens = SubSeq(src.rest, k, Len(src.rest))
            /\ c.unitTokens \o c.refTokens = src.rest
            /\ \A j \in 1..Len(src.rest) :
                  (IsNumberToken(src.rest[j]) /\ j < Len(src.rest) /\ j < k)
                      => j <= Len(c.unitTokens) /\ c.unitTokens[j] = src.rest[j]
            /\ parsed # None
            /\ parsed[1].unit =
                  (IF k = 1 THEN None ELSE Some(Join(SubSeq(src.rest, 1, k - 1))))

\* C3's case: "7 14-18 mg/dL" after the value: the bare 7, not last, is the
\* unit; the range and the token after it are the reference segment.
C3_Witness ==
    /\ lpc = "parsed" /\ src.kind = "data" /\ segs # None
    /\ src.rest = <<Chars("7"), Chars("14-18"), Chars("mg/dL")>>
    /\ segs[1].unitTokens = <<Chars("7")>>
    /\ segs[1].refTokens = <<Chars("14-18"), Chars("mg/dL")>>

ProbeLen(x) == x.u + x.p + x.l + x.d

\* C6, as amended: a line is a header exactly when it has 4 to 45 characters,
\* no digit, and at least min(8, length / 2) capitals, the half length not
\* rounded: twice the capitals is at least min(16, length).  A 5-character
\* digit-free line needs 3 capitals.
C6_HeaderHalfNotRounded ==
    (lpc # "start" /\ src.kind = "probe") =>
        (isHeader <=>
            /\ ProbeLen(src) >= 4 /\ ProbeLen(src) <= 45
            /\ src.d = 0
            /\ 2 * src.u >= Min(16, ProbeLen(src)))

\* C6, as stated: the threshold is min(8, floor(length * 0.5)).
C6_HeaderHalfFloored ==
    (lpc # "start" /\ src.kind = "probe") =>
        (isHeader <=>
            /\ ProbeLen(src) >= 4 /\ ProbeLen(src) <= 45
            /\ src.d = 0
            /\ src.u >= Min(8, ProbeLen(src) \div 2))

\* C6's case: 5 characters, no digit, 2 capitals: classified, and no header.
C6_Witness ==
    /\ lpc = "classified" /\ src.kind = "probe"
    /\ ProbeLen(src) = 5 /\ src.d = 0 /\ src.u = 2
    /\ ~isHeader

----------------------------------------------------------------------------
(* SpecReport: parseReportText on one text, a turn of its loop per step.    *)
(* The texts are up to MaxLines lines of RawLines joined by "\n".  origin   *)
(* is a history variable: origin[k] is the index in lines of the line that  *)
(* measurements[k] was parsed from.                                         *)

MaxLines == 4

PageLine == Chars("Page 1 of 3")

RawLines == {Chars("LIPID  PROFILE"), Chars("THYROID\r"),
             Chars("Hb 12.3 gm/dL 14-18"), PageLine, Chars("(Hb) 12.3"),
             Chars("  "), Chars("Notes")}

RawTexts ==
    {FlattenLines(ls) : ls \in UNION {[1..k -> RawLines] : k \in 0..MaxLines}}

ReportInit ==
    /\ rawText \in RawTexts
    /\ lines = << >> /\ lineNo = 0 /\ panel = << >>
    /\ measurements = << >> /\ origin = << >> /\ rpc = "start"
    /\ LineIdle /\ CollectIdle /\ AppIdle

StartParse ==
    /\ rpc = "start"
    /\ lines' = SplitText(rawText)
    /\ panel' = General
    /\ measurements' = << >>
    /\ origin' = << >>
    /\ lineNo' = 1
    /\ rpc' = "loop"
    /\ UNCHANGED <<rawText, lineVars, collectVars, appVars>>

LoopTurn(after) ==
    /\ panel' = after.panel
    /\ measurements' = after.measurements
    /\ origin' = IF Len(after.measurements) > Len(measurements)
                 THEN Append(origin, lineNo) ELSE origin
    /\ lineNo' = lineNo + 1
    /\ UNCHANGED <<rawText, lines, rpc, lineVars, collectVars, appVars>>

Here == [panel |-> panel, measurements |-> measurements]

LoopHeader ==
    /\ rpc = "loop" /\ lineNo <= Len(lines)
    /\ looksLikePanelHeader(lines[lineNo])
    /\ LoopTurn(DriverStep(Here, lines[lineNo]))

LoopMeasure ==
    /\ rpc = "loop" /\ lineNo <= Len(lines)
    /\ ~looksLikePanelHeader(lines[lineNo])
    /\ parseMeasurementLine(lines[lineNo]) # None
    /\ LoopTurn(DriverStep(Here, lines[lineNo]))

LoopSkip ==
    /\ rpc = "loop" /\ lineNo <= Len(lines)
    /\ ~looksLikePanelHeader(lines[lineNo])
    /\ parseMeasurementLine(lines[lineNo]) = None
    /\ LoopTurn(DriverStep(Here, lines[lineNo]))

ReturnMeasurements ==
    /\ rpc = "loop" /\ lineNo > Len(lines)
    /\ rpc' = "done"
    /\ UNCHANGED <<rawText, lines, lineNo, panel, measurements, origin,
                   lineVars, collectVars, appVars>>

ReportNext ==
    StartParse \/ LoopHeader \/ LoopMeasure \/ LoopSkip \/ ReturnMeasurements

SpecReport == ReportInit /\ [][ReportNext]_vars

(* Properties of SpecReport *)

\* Whitespace-normalized text, computed from the words of the line
NormWs(s) ==
    LET spaced == [i \in 1..Len(s) |-> IF IsSpace(s[i]) THEN " " ELSE s[i]]
    IN  Join(SelectSeq(SplitChar(spaced, " ", << >>), LAMBDA w : Len(w) > 0))

ClaimedPanel(j) ==
    LET hs == {h \in 1..(j - 1) : looksLikePanelHeader(lines[h])}
    IN  IF hs = {} THEN Chars("General") ELSE NormWs(lines[SetMax(hs)])

\* C1: every record carries as panel the whitespace-normalized text of the
\* most recent header line before the record's own line, or "General" when no
\* header line precedes it; a header line never produces a record; and the
\* whole call returns what the loop has built.
C1_PanelIsLastHeader ==
    (rpc \in {"loop", "done"}) =>
        /\ Len(origin) = Len(measurements)
        /\ \A k \in 1..Len(measurements) :
              /\ origin[k] \in 1..Len(lines)
              /\ ~looksLikePanelHeader(lines[origin[k]])
              /\ measurements[k].panel = ClaimedPanel(origin[k])
              /\ measurements[k].rawLine = NormWs(lines[origin[k]])
        /\ (rpc = "done" => measurements = parseReportText(rawText))

\* C1's case: header, record, next header, record: the first record is under
\* the first header, the second under the second.
C1_Witness ==
    /\ rpc = "done"
    /\ Len(measurements) = 2
    /\ measurements[1].panel = Chars("LIPID PROFILE")
    /\ measurements[2].panel = Chars("THYROID")
    /\ origin = <<2, 4>>

RawWithoutPageLine(text) ==
    FlattenLines(SelectSeq(SplitLines(text, << >>), LAMBDA l : l # PageLine))

\* C4, as stated: the line "Page 1 of 3" yields no record: the records of a
\* text are those of the same text with that line removed, and the line alone
\* gives an empty sequence.
C4_PageLineYieldsNoRecord ==
    (rpc = "done") =>
        /\ measurements = parseReportText(RawWithoutPageLine(rawText))
        /\ (rawText = PageLine => measurements = << >>)

WellFormedKey(k) ==
    /\ Len(k) > 0
    /\ \A i \in 1..Len(k) : IsLower(k[i]) \/ IsDigit(k[i]) \/ k[i] = "_"
    /\ k[1] # "_" /\ k[Len(k)] # "_"

\* C5, as stated: every record returned has a non-empty name and a non-empty
\* key over [a-z0-9_] with no leading or trailing underscore; a line whose
\* name normalizes to nothing yields no record.
C5_RecordsWellFormed ==
    (rpc = "done") =>
        \A k \in 1..Len(measurements) :
            /\ Len(measurements[k].name) > 0
            /\ WellFormedKey(measurements[k].key)

----------------------------------------------------------------------------
(* SpecCollect: extractCollectedAt on one text.  A text is one or two       *)
(* segments, each a label, up to MaxPad blanks, a punctuation mark or none, *)
(* the blanks again, a date, and what follows the date; csrc keeps the      *)
(* segments the text was built from.                                        *)

MaxPad == 1

CollectedOn    == Chars("Collected On")
CollectionDate == Chars("Collection Date")

Labels  == {CollectedOn, CollectionDate, Chars("Reported On")}
Puncts  == {<< >>, Chars(":"), Chars("-")}
Dates   == {Chars("16/01/2026"), Chars("1/2/26"), Chars("16.01.2026")}
Follows == {<< >>, Chars(" 1:40PM"), Chars(" 13:05 "), Chars(" 1:40 pm"),
            Chars("1:40PM"), Chars(" 9:5")}

Segments ==
    {[label |-> lb, pad |-> k, punct |-> pu, date |-> d, follow |-> f] :
        lb \in Labels, k \in 0..MaxPad, pu \in Puncts, d \in Dates,
        f \in Follows}

SecondSegments ==
    {[label |-> CollectedOn, pad |-> 1, punct |-> << >>,
      date |-> Chars("2/3/27"), follow |-> Chars(" 8:15AM")],
     [label |-> CollectionDate, pad |-> 1, punct |-> Chars(":"),
      date |-> Chars("2/3/27"), follow |-> << >>],
     [label |-> CollectionDate, pad |-> 0, punct |-> << >>,
      date |-> Chars("4/5/2028"), follow |-> Chars(" 7:00")]}

SegmentText(g) ==
    g.label \o Rep(" ", g.pad) \o g.punct \o Rep(" ", g.pad) \o g.date
        \o g.follow

CollectSrcs ==
    {<<g>> : g \in Segments}
        \cup {<<g, h>> : g \in Segments, h \in SecondSegments}

CollectInit ==
    /\ csrc \in CollectSrcs
    /\ ctext = FlattenLines([i \in 1..Len(csrc) |-> SegmentText(csrc[i])])
    /\ collected = None /\ cpc = "start"
    /\ ReportIdle /\ LineIdle /\ AppIdle

Extract ==
    /\ cpc = "start"
    /\ collected' = extractCollectedAt(ctext)
    /\ cpc' = "done"
    /\ UNCHANGED <<ctext, csrc, reportVars, lineVars, appVars>>

SpecCollect == CollectInit /\ [][Extract]_vars

(* Properties of SpecCollect *)

\* What follows the date, where it is blanks and then a time token H:MM or
\* HH:MM with its am/pm marker: the time token
TimeTokenOf(f) ==
    CASE f = Chars(" 1:40PM")  -> Some(Chars("1:40PM"))
      [] f = Chars(" 13:05 ")  -> Some(Chars("13:05"))
      [] f = Chars(" 8:15AM")  -> Some(Chars("8:15AM"))
      [] f = Chars(" 7:00")    -> Some(Chars("7:00"))
      [] f = Chars(" 1:40 pm") -> Some(Chars("1:40 pm"))
      [] OTHER                 -> None

IsDateToken(d) == d # Chars("16.01.2026")

\* The date token as it stands in the text: a year of two digits runs on into
\* a digit that follows it without a blank ("1/2/26" then "1:40PM")
TextDate(g) ==
    IF g.date = Chars("1/2/26") /\ g.follow = Chars("1:40PM")
    THEN Chars("1/2/261") ELSE g.date

FirstOf(S) == IF S = {} THEN 0 ELSE SetMin(S)

\* The segments a label phrase and a date token begin
OnHits   == {i \in 1..Len(csrc) :
                csrc[i].label = CollectedOn /\ IsDateToken(csrc[i].date)}
DateHits == {i \in 1..Len(csrc) :
                csrc[i].label = CollectionDate /\ IsDateToken(csrc[i].date)}
\* ... and, for "Collected On", a time token after the date as well
OnTimeHits == {i \in OnHits : TimeTokenOf(csrc[i].follow) # None}

\* C7, as amended: "Collected On" is tried first and needs the date token to
\* be followed by blanks and a time token: the result is then that date and
\* that time (with the blanks the match has taken after the minutes).  Only
\* when it matches nowhere is "Collection Date" with a date token tried: the
\* result is that date with timePart "00:00", whether or not a time follows.
\* The result is absent when neither matches, so also for "Collected On" and
\* a date with no time.
C7_TimeRequiredAfterCollectedOn ==
    (cpc = "done") =>
        IF OnTimeHits # {}
        THEN LET g == csrc[FirstOf(OnTimeHits)]
             IN  /\ collected # None
                 /\ collected[1].datePart = g.date
                 /\ TrimRight(collected[1].timePart) = TimeTokenOf(g.follow)[1]
        ELSE IF DateHits # {}
        THEN LET g == csrc[FirstOf(DateHits)]
             IN  /\ collected # None
                 /\ collected[1].datePart = TextDate(g)
                 /\ collected[1].timePart = Chars("00:00")
        ELSE collected = None

\* C7, as stated: either label followed by a date token gives a result, with
\* the time token after the date when there is one and "00:00" when there is
\* none; "Collected On" wins when both labels match; the result is absent
\* only when no label is followed by a date token.
C7_TimeOptionalForBothLabels ==
    (cpc = "done") =>
        IF OnHits \cup DateHits = {} THEN collected = None
        ELSE LET g == IF OnHits # {} THEN csrc[FirstOf(OnHits)]
                      ELSE csrc[FirstOf(DateHits)]
             IN  /\ collected # None
                 /\ collected[1].datePart = TextDate(g)
                 /\ TrimRight(collected[1].timePart) =
                        (IF TimeTokenOf(g.follow) # None
                         THEN TimeTokenOf(g.follow)[1] ELSE Chars("00:00"))

\* C7's case: "Collected On" and a date with nothing after it, and no other
\* label: the call has returned, with no result.
C7_Witness ==
    /\ cpc = "done"
    /\ Len(csrc) = 1
    /\ csrc[1].label = CollectedOn /\ csrc[1].date = Chars("16/01/2026")
    /\ csrc[1].follow = << >>
    /\ collected = None

----------------------------------------------------------------------------
(* storage.js and app.js.  SpecApp: the page with its file input, the Parse *)
(* and Save buttons, the draft, and the store.  A handler runs to its next  *)
(* await in one step.  The requests to the store (getItem, setItem, clear)  *)
(* wait in queue and complete in the order they were issued, one per step;  *)
(* what follows the await of a request runs in the step that completes it.  *)
(* The history variables: done, the addReportMeasurements calls that have   *)
(* returned; cleared, whether Clear was clicked; and the draftId that a     *)
(* draft and its measurements carry.  extracted holds, per file, what the   *)
(* Parse handler computes from the text of the file.                        *)

MaxParses == 2
MaxSaves  == 2
MaxQueue  == 3

Files == {"a.pdf", "b.pdf", "scan.pdf"}

\* The text the PDF text layer of each file gives
FileText(f) ==
    CASE f = "a.pdf" ->
            Chars("Collected On : 16/01/2026 1:40PM\nHb 12.3 gm/dL 14-18\n(Hb) 12.3")
      [] f = "b.pdf" -> Chars("THYROID\nTSH 2.5 mIU/L")
      [] OTHER -> << >>

\* dt ? toISO(dt.datePart, dt.timePart) : new Date().toISOString(); the
\* instant is kept as the matched pair, or "now"
CollectedAtOf(text) ==
    LET dt == extractCollectedAt(text)
    IN  IF dt # None THEN dt[1].datePart \o <<" ">> \o dt[1].timePart
        ELSE Chars("now")

\* What the Parse handler computes from the text of each file: fullText,
\* parseReportText(fullText) and the collection instant
Extracted ==
    [f \in Files |->
        [measurements   |-> parseReportText(FileText(f)),
         collectedAtISO |-> CollectedAtOf(FileText(f))]]

\* m.key && typeof m.value === "number" && !Number.isNaN(m.value)
Cleaned(ms) == SelectSeq(ms, LAMBDA m : Len(m.key) > 0)

\* report.measurements.map(m => ({ ...m, collectedAtISO, reportId, sourceName }))
Stamped(report) ==
    [i \in 1..Len(report.measurements) |->
        [collectedAtISO |-> report.collectedAtISO,
         reportId       |-> report.reportId,
         sourceName     |-> report.sourceName] @@ report.measurements[i]]

\* The page as loaded: no file chosen, no draft, both buttons disabled (the
\* handlers enable them), an empty store
AppInit ==
    /\ fileSel = None
    /\ btnParseDisabled = TRUE /\ btnSaveDisabled = TRUE
    /\ parsedDraft = None
    /\ extracted = Extracted
    /\ parses = {} /\ saves = {} /\ queue = << >> /\ db = << >>
    /\ nextReportId = 1 /\ nextDraftId = 1 /\ done = {} /\ cleared = FALSE
    /\ ReportIdle /\ LineIdle /\ CollectIdle

\* fileInput "change": another file is chosen, or none
FileChange(f) ==
    /\ f # fileSel
    /\ fileSel' = f
    /\ btnParseDisabled' = (f = None)
    /\ btnSaveDisabled' = TRUE
    /\ parsedDraft' = None
    /\ UNCHANGED <<extracted, parses, saves, queue, db, nextReportId, nextDraftId, done,
                   cleared, reportVars, lineVars, collectVars>>

\* btnParse "click", up to the first await
ParseClick ==
    /\ ~btnParseDisabled
    /\ fileSel # None
    /\ nextDraftId <= MaxParses
    /\ btnParseDisabled' = TRUE
    /\ btnSaveDisabled' = TRUE
    /\ parses' = parses \cup {[id |-> nextDraftId, file |-> fileSel[1]]}
    /\ nextDraftId' = nextDraftId + 1
    /\ UNCHANGED <<extracted, fileSel, parsedDraft, saves, queue, db, nextReportId, done,
                   cleared, reportVars, lineVars, collectVars>>

\* the Parse handler after its last await: measurements found
ParseDoneDraft(p) ==
    /\ p \in parses
    /\ LET ms == extracted[p.file].measurements
       IN  /\ Len(ms) > 0
           /\ parsedDraft' =
                Some([collectedAtISO |-> extracted[p.file].collectedAtISO,
                      sourceName     |-> p.file,
                      measurements   |->
                          [i \in 1..Len(ms) |-> [draftId |-> p.id] @@ ms[i]]])
    /\ btnSaveDisabled' = FALSE
    /\ btnParseDisabled' = FALSE
    /\ parses' = parses \ {p}
    /\ UNCHANGED <<extracted, fileSel, saves, queue, db, nextReportId, nextDraftId, done,
                   cleared, reportVars, lineVars, collectVars>>

\* the Parse handler after its last await: no measurements
ParseDoneEmpty(p) ==
    /\ p \in parses
    /\ Len(extracted[p.file].measurements) = 0
    /\ btnParseDisabled' = FALSE
    /\ parses' = parses \ {p}
    /\ UNCHANGED <<extracted, fileSel, btnSaveDisabled, parsedDraft, saves, queue, db,
                   nextReportId, nextDraftId, done, cleared, reportVars,
                   lineVars, collectVars>>

\* the Parse handler: reading the file or the PDF throws; catch and finally
ParseFail(p) ==
    /\ p \in parses
    /\ btnParseDisabled' = FALSE
    /\ parses' = parses \ {p}
    /\ UNCHANGED <<extracted, fileSel, btnSaveDisabled, parsedDraft, saves, queue, db,
                   nextReportId, nextDraftId, done, cleared, reportVars,
                   lineVars, collectVars>>

\* btnSave "click", up to the await in addReportMeasurements: getItem is issued
SaveClick ==
    /\ ~btnSaveDisabled
    /\ parsedDraft # None
    /\ nextReportId <= MaxSaves
    /\ Len(queue) < MaxQueue
    /\ LET cleaned == [collectedAtISO |-> parsedDraft[1].collectedAtISO,
                       sourceName     |-> parsedDraft[1].sourceName,
                       reportId       |-> nextReportId,
                       measurements   |-> Cleaned(parsedDraft[1].measurements)]
       IN  /\ saves' = saves \cup {cleaned}
           /\ queue' = Append(queue, [op |-> "get", reportId |-> nextReportId])
    /\ nextReportId' = nextReportId + 1
    /\ UNCHANGED <<extracted, fileSel, btnParseDisabled, btnSaveDisabled, parsedDraft,
                   parses, db, nextDraftId, done, cleared, reportVars, lineVars,
                   collectVars>>

ReportOf(id) == CHOOSE r \in saves : r.reportId = id

\* addReportMeasurements after "await getAllMeasurements()": merged is built
\* from what was read, and setItem is issued
addReportMeasurementsRead ==
    /\ queue # << >> /\ Head(queue).op = "get"
    /\ LET merged == db \o Stamped(ReportOf(Head(queue).reportId))
       IN  queue' = Append(Tail(queue),
                           [op |-> "set", reportId |-> Head(queue).reportId,
                            value |-> merged])
    /\ UNCHANGED <<extracted, fileSel, btnParseDisabled, btnSaveDisabled, parsedDraft,
                   parses, saves, db, nextReportId, nextDraftId, done, cleared,
                   reportVars, lineVars, collectVars>>

\* addReportMeasurements after "await saveMeasurements(merged)": it returns,
\* and the Save handler goes on to drop the draft and disable Save
addReportMeasurementsWritten ==
    /\ queue # << >> /\ Head(queue).op = "set"
    /\ db' = Head(queue).value
    /\ queue' = Tail(queue)
    /\ LET r == ReportOf(Head(queue).reportId)
       IN  /\ saves' = saves \ {r}
           /\ done' = done \cup {r}
    /\ parsedDraft' = None
    /\ btnSaveDisabled' = TRUE
    /\ UNCHANGED <<extracted, fileSel, btnParseDisabled, parses, nextReportId,
                   nextDraftId, cleared, reportVars, lineVars, collectVars>>

\* btnClear "click": clearAll issues db.clear()
ClearClick ==
    /\ Len(queue) < MaxQueue
    /\ queue' = Append(queue, [op |-> "clear"])
    /\ cleared' = TRUE
    /\ UNCHANGED <<extracted, fileSel, btnParseDisabled, btnSaveDisabled, parsedDraft,
                   parses, saves, db, nextReportId, nextDraftId, done,
                   reportVars, lineVars, collectVars>>

clearAllDone ==
    /\ queue # << >> /\ Head(queue).op = "clear"
    /\ db' = << >>
    /\ queue' = Tail(queue)
    /\ UNCHANGED <<extracted, fileSel, btnParseDisabled, btnSaveDisabled, parsedDraft,
                   parses, saves, nextReportId, nextDraftId, done, cleared,
                   reportVars, lineVars, collectVars>>

AppNext ==
    \/ \E f \in {None} \cup {Some(x) : x \in Files} : FileChange(f)
    \/ ParseClick
    \/ \E p \in parses : ParseDoneDraft(p)
    \/ \E p \in parses : ParseDoneEmpty(p)
    \/ \E p \in parses : ParseFail(p)
    \/ SaveClick
    \/ addReportMeasurementsRead
    \/ addReportMeasurementsWritten
    \/ ClearClick
    \/ clearAllDone

SpecApp == AppInit /\ [][AppNext]_vars

(* Properties of SpecApp *)

\* C8, as stated: with no clearAll, once every addReportMeasurements call has
\* returned, the store holds the records of every call, each stamped with its
\* own call's reportId, sourceName and collectedAtISO: none is missing.
C8_NoCompletedCallLost ==
    (saves = {} /\ queue = << >> /\ ~cleared) =>
        \A r \in done :
            \A i \in 1..Len(r.measurements) :
                \E j \in 1..Len(db) : db[j] = Stamped(r)[i]

\* C9, as stated: the measurements of one draft are never stored under more
\* than one reportId.
C9_DraftStoredOnce ==
    \A i, j \in 1..Len(db) :
        db[i].draftId = db[j].draftId => db[i].reportId = db[j].reportId

\* C10, as stated: whenever Save is enabled, parsedDraft is non-null and is
\* the draft of the file now selected in the file input.
C10_SaveEnabledForSelectedFile ==
    ~btnSaveDisabled =>
        /\ parsedDraft # None
        /\ fileSel = Some(parsedDraft[1].sourceName)

============================================================================
